---- MODULE Spec2Model ----
(***************************************************************************)
(* A model of the streaming anomaly detector (src/anomaly_detector.py),    *)
(* the synthetic signal generator (src/data_stream_simulator.py) and the   *)
(* driver loop (src/main.py).                                              *)
(*                                                                         *)
(* Numbers.  The detector works on real numbers and guards its division    *)
(* with the constant 1e-10.  A number is modelled exactly as a polynomial  *)
(* c0 + c1*e + c2*e^2 in e = 1e-10 with integer coefficients, written      *)
(* <<c0, c1, c2>>.  Every coefficient TLC can hold is below 2^31 < 1/(2e), *)
(* so the sign of such a polynomial is the sign of its first non-zero      *)
(* coefficient: comparisons are those of real arithmetic, and a sample     *)
(* such as 1 + 2e-10 is distinguishable from 1.  Rounding of IEEE doubles  *)
(* is not modelled.                                                        *)
(***************************************************************************)
EXTENDS Integers, Sequences, FiniteSets

VARIABLES
    \* AnomalyDetector
    phase,           \* "new" | "ready" | "rejected" | "crashed"
    window_size,     \* self.window_size
    threshold,       \* self.threshold, a rational <<numerator, denominator>>
    values,          \* self.values, the deque
    is_initialized,  \* self.is_initialized
    mean,            \* self.mean (kind "unset" until first assigned)
    std,             \* self.std  (kind "unset" until first assigned)
    \* history of the calls made on the detector
    fed,             \* every value passed to is_anomaly, in order
    results,         \* what each call returned
    before,          \* the deque's contents when the last call began
    used,            \* the statistics the last call's z-score read
    \* DataStreamSimulator
    gen_phase,       \* "new" | "ready"
    seasonal_period, \* self.seasonal_period
    trend_factor,    \* self.trend_factor, in tenths
    noise_level,     \* self.noise_level, in tenths
    counter,         \* self.counter
    gen_last,        \* how the last get_next_value ended
    \* AnomalyDetectionSystem.run
    running,         \* self.running
    pc,              \* where run() stands ("off": no system exists)
    value,           \* run's local: the sample of this iteration
    cleanup_calls,   \* how often cleanup() was called
    left_by          \* how the loop was left: "none" | "signal" | "sink" | "exception"

detVars == <<phase, window_size, threshold, values, is_initialized, mean, std,
             fed, results, before, used>>

genVars == <<gen_phase, seasonal_period, trend_factor, noise_level, counter, gen_last>>

sysVars == <<running, pc, value, cleanup_calls, left_by>>

vars == <<detVars, genVars, sysVars>>

(***************************************************************************)
(* Bounds of the model.                                                    *)
(***************************************************************************)
MaxCalls == 6
MaxCapacity == 4
MaxCounter == 5
MaxIterations == 3

(***************************************************************************)
(* Arithmetic on numbers c0 + c1*e + c2*e^2.                               *)
(***************************************************************************)
Num(a, b) == <<a, b, 0>>

Zero == <<0, 0, 0>>

\* The epsilon of the z-score's denominator.
Epsilon == <<0, 1, 0>>

PAdd(p, q) == <<p[1] + q[1], p[2] + q[2], p[3] + q[3]>>

PScale(k, p) == <<k * p[1], k * p[2], k * p[3]>>

PSub(p, q) == PAdd(p, PScale(-1, q))

\* The product of two numbers of degree at most one.
PMul(p, q) == <<p[1] * q[1], p[1] * q[2] + p[2] * q[1], p[2] * q[2]>>

PSign(p) ==
    IF p[1] # 0 THEN (IF p[1] > 0 THEN 1 ELSE -1)
    ELSE IF p[2] # 0 THEN (IF p[2] > 0 THEN 1 ELSE -1)
    ELSE IF p[3] # 0 THEN (IF p[3] > 0 THEN 1 ELSE -1)
    ELSE 0

PAbs(p) == IF PSign(p) < 0 THEN PScale(-1, p) ELSE p

RECURSIVE SeqSum(_)
SeqSum(s) == IF s = <<>> THEN Zero ELSE PAdd(Head(s), SeqSum(Tail(s)))

\* The sum over the window of (n*x - S)^2, with n the length and S the sum.
RECURSIVE SumSqDev(_, _, _)
SumSqDev(s, n, S) ==
    IF s = <<>> THEN Zero
    ELSE LET d == PSub(PScale(n, Head(s)), S)
         IN  PAdd(PMul(d, d), SumSqDev(Tail(s), n, S))

(***************************************************************************)
(* Statistics.  A mean is num/den; a standard deviation is                 *)
(* sqrt(num/den).  numpy returns nan for an empty window; an attribute     *)
(* never assigned is "unset".                                              *)
(***************************************************************************)
Unset == [kind |-> "unset", num |-> Zero, den |-> 1]

NaN == [kind |-> "nan", num |-> Zero, den |-> 1]

\* np.mean(self.values)
NpMean(w) ==
    IF Len(w) = 0 THEN NaN
    ELSE [kind |-> "num", num |-> SeqSum(w), den |-> Len(w)]

\* A mutant: the sample deviation (n - 1 in the denominator).
NpStdSample(w) ==
    IF Len(w) <= 1 THEN NaN
    ELSE [kind |-> "num",
          num |-> SumSqDev(w, Len(w), SeqSum(w)),
          den |-> Len(w) * Len(w) * (Len(w) - 1)]

\* np.std(self.values): sqrt(mean(|x - mean|^2)), the population deviation.
NpStd(w) ==
    IF Len(w) = 0 THEN NaN
    ELSE [kind |-> "num",
          num |-> SumSqDev(w, Len(w), SeqSum(w)),
          den |-> Len(w) * Len(w) * Len(w)]

\* A mutant: the statistics leave out the newest sample.
update_statistics_stale(w) ==
    LET old == IF Len(w) = 0 THEN w ELSE SubSeq(w, 1, Len(w) - 1)
    IN  [mean |-> NpMean(old), std |-> NpStd(old)]

update_statistics(w) == [mean |-> NpMean(w), std |-> NpStd(w)]

\* Equality of two means, and of two deviations, as real numbers.
MeanEq(m1, m2) ==
    /\ m1.kind = m2.kind
    /\ m1.kind = "num" => PScale(m2.den, m1.num) = PScale(m1.den, m2.num)

StdEq(s1, s2) ==
    /\ s1.kind = s2.kind
    /\ s1.kind = "num" => PScale(s2.den, s1.num) = PScale(s1.den, s2.num)

(***************************************************************************)
(* abs((value - mean) / (std + 1e-10)) > threshold.                        *)
(*                                                                         *)
(* With mean = S/n, std = sqrt(R/d) and threshold = tn/td (td > 0):        *)
(*   a nan statistic makes the z-score nan, and nan > t is False;          *)
(*   for tn < 0 the comparison holds, abs(z) being >= 0;                   *)
(*   otherwise, multiplying by n*td > 0,                                   *)
(*       |n*value - S|*td - tn*n*e  >  tn*n*sqrt(R/d),                     *)
(*   which holds iff the left side B is positive and                       *)
(*       B^2 * d > tn^2 * n^2 * R.                                         *)
(***************************************************************************)
ZDeviation(x, m) == PSub(PScale(m.den, x), m.num)

\* A mutant: the sign of the z-score is kept (no abs).
ZMagnitudeSigned(x, m) == ZDeviation(x, m)

ZMagnitude(x, m) == PAbs(ZDeviation(x, m))

ZScoreExceeds(x, m, s, thr) ==
    IF m.kind # "num" \/ s.kind # "num" THEN FALSE
    ELSE IF thr[1] < 0 THEN TRUE
    ELSE LET B == PSub(PScale(thr[2], ZMagnitude(x, m)),
                       PScale(thr[1] * m.den, Epsilon))
         IN  /\ PSign(B) > 0
             /\ PSign(PSub(PScale(s.den, PMul(B, B)),
                           PScale(thr[1] * thr[1] * m.den * m.den, s.num))) > 0

(***************************************************************************)
(* The deque and the warm-up gate.                                         *)
(***************************************************************************)
\* A mutant: a full deque refuses the new sample instead of evicting.
DequeAppendKeepOld(d, maxlen, x) ==
    IF Len(d) >= maxlen THEN d ELSE Append(d, x)

\* deque(maxlen=window_size).append(x)
DequeAppend(d, maxlen, x) ==
    IF maxlen = 0 THEN d
    ELSE IF Len(d) = maxlen THEN Append(Tail(d), x)
    ELSE Append(d, x)

\* Mutants: a gate one sample short, and one sample long.
WarmupLenShort(ws) == IF ws \div 2 > 0 THEN ws \div 2 - 1 ELSE 0

WarmupLenLong(ws) == ws \div 2 + 1

\* window_size // 2
WarmupLen(ws) == ws \div 2

\* A mutant: the cached statistics are read without the first-time update.
ReadStatsNoInit(init, m, s, w) == [mean |-> m, std |-> s]

\* The statistics the z-score reads: computed first if not yet initialized.
ReadStats(init, m, s, w) ==
    IF ~init THEN update_statistics(w) ELSE [mean |-> m, std |-> s]

(***************************************************************************)
(* Inputs.                                                                 *)
(***************************************************************************)
\* The samples 1, 10 and 1 + 2e-10; the thresholds -1, 0, 1, 2.5 (the tests'
\* and the driver's) and 3 (the default).  With these no reachable z-score
\* equals a positive threshold exactly, where the rounding of doubles would
\* decide the comparison.
Values == {Num(1, 0), Num(10, 0), Num(1, 2)}

Capacities == -1 .. MaxCapacity

Thresholds == {<<-1, 1>>, <<0, 1>>, <<1, 1>>, <<5, 2>>, <<3, 1>>}

(***************************************************************************)
(* AnomalyDetector                                                         *)
(***************************************************************************)
DetInit ==
    /\ phase = "new"
    /\ window_size = 0
    /\ threshold = <<0, 1>>
    /\ values = <<>>
    /\ is_initialized = FALSE
    /\ mean = Unset
    /\ std = Unset
    /\ fed = <<>>
    /\ results = <<>>
    /\ before = <<>>
    /\ used = [gate |-> TRUE, cached |-> FALSE, mean |-> Unset, std |-> Unset]

\* AnomalyDetector(window_size=ws, threshold=th): deque(maxlen=ws) raises
\* ValueError for ws < 0; nothing else is checked.
Construct(ws, th) ==
    /\ phase = "new"
    /\ IF ws < 0
       THEN /\ phase' = "rejected"
            /\ UNCHANGED <<window_size, threshold>>
       ELSE /\ phase' = "ready"
            /\ window_size' = ws
            /\ threshold' = th
    /\ UNCHANGED <<values, is_initialized, mean, std, fed, results, before, used>>

\* is_anomaly(value), with x the value passed
IsAnomaly(x) ==
    /\ fed' = Append(fed, x)
    /\ before' = values
    /\ IF Len(values) < WarmupLen(window_size)
       THEN /\ values' = DequeAppend(values, window_size, x)
            /\ results' = Append(results, FALSE)
            /\ used' = [gate |-> TRUE, cached |-> FALSE, mean |-> mean, std |-> std]
            /\ UNCHANGED <<phase, is_initialized, mean, std>>
       ELSE LET st == ReadStats(is_initialized, mean, std, values)
                newvals == DequeAppend(values, window_size, x)
                post == update_statistics(newvals)
            IN  /\ is_initialized' = TRUE
                /\ used' = [gate |-> FALSE, cached |-> is_initialized,
                            mean |-> st.mean, std |-> st.std]
                /\ IF st.mean.kind = "unset" \/ st.std.kind = "unset"
                   THEN \* AttributeError: the call does not return
                        /\ phase' = "crashed"
                        /\ mean' = st.mean
                        /\ std' = st.std
                        /\ UNCHANGED <<values, results>>
                   ELSE /\ values' = newvals
                        /\ mean' = post.mean
                        /\ std' = post.std
                        /\ results' = Append(results,
                                         ZScoreExceeds(x, st.mean, st.std, threshold))
                        /\ UNCHANGED phase
    /\ UNCHANGED <<window_size, threshold>>

Classify(x) ==
    /\ phase = "ready"
    /\ Len(fed) < MaxCalls
    /\ IsAnomaly(x)

\* update_statistics(), called by a client: the method is public.  It
\* assigns mean and std from the window and leaves is_initialized alone.
UpdateStatistics ==
    /\ phase = "ready"
    /\ mean' = update_statistics(values).mean
    /\ std' = update_statistics(values).std
    /\ UNCHANGED <<phase, window_size, threshold, values, is_initialized,
                   fed, results, before, used>>

(***************************************************************************)
(* DataStreamSimulator                                                     *)
(***************************************************************************)
Periods == (-1 .. 2) \cup {10, 24}

TrendFactors == {0, 1}

NoiseLevels == {-5, 0, 3, 5}

GenInit ==
    /\ gen_phase = "new"
    /\ seasonal_period = 0
    /\ trend_factor = 0
    /\ noise_level = 0
    /\ counter = 0
    /\ gen_last = "none"

\* DataStreamSimulator(seasonal_period=sp, trend_factor=tf, noise_level=nl):
\* the arguments are stored as given.
GenConstruct(sp, tf, nl) ==
    /\ gen_phase = "new"
    /\ gen_phase' = "ready"
    /\ seasonal_period' = sp
    /\ trend_factor' = tf
    /\ noise_level' = nl
    /\ counter' = 0
    /\ UNCHANGED gen_last

\* get_next_value(): the division by seasonal_period raises ZeroDivisionError
\* for a period of 0, np.random.normal raises ValueError for a negative
\* scale; both happen before the counter is incremented.  The number
\* returned is not part of the generator's state.
GetNextValue ==
    IF seasonal_period = 0
    THEN /\ gen_last' = "ZeroDivisionError"
         /\ UNCHANGED counter
    ELSE IF noise_level < 0
    THEN /\ gen_last' = "ValueError"
         /\ UNCHANGED counter
    ELSE /\ gen_last' = "value"
         /\ counter' = counter + 1

NextValue ==
    /\ gen_phase = "ready"
    /\ counter < MaxCounter
    /\ GetNextValue
    /\ UNCHANGED <<gen_phase, seasonal_period, trend_factor, noise_level>>

(***************************************************************************)
(* AnomalyDetectionSystem                                                  *)
(***************************************************************************)
SysOff ==
    /\ running = FALSE
    /\ pc = "off"
    /\ value = Zero
    /\ cleanup_calls = 0
    /\ left_by = "none"

\* The state AnomalyDetectionSystem() leaves: AnomalyDetector(50, 2.5),
\* DataStreamSimulator(noise_level=0.3), the handlers installed.
SysInit ==
    /\ phase = "ready"
    /\ window_size = 50
    /\ threshold = <<5, 2>>
    /\ values = <<>>
    /\ is_initialized = FALSE
    /\ mean = Unset
    /\ std = Unset
    /\ fed = <<>>
    /\ results = <<>>
    /\ before = <<>>
    /\ used = [gate |-> TRUE, cached |-> FALSE, mean |-> Unset, std |-> Unset]
    /\ gen_phase = "ready"
    /\ seasonal_period = 24
    /\ trend_factor = 1
    /\ noise_level = 3
    /\ counter = 0
    /\ gen_last = "none"
    /\ running = TRUE
    /\ pc = "while"
    /\ value = Zero
    /\ cleanup_calls = 0
    /\ left_by = "none"

\* signal_handler: may run between any two steps of the process.
SignalHandler ==
    /\ pc \notin {"off", "done"}
    /\ running' = FALSE
    /\ UNCHANGED <<pc, value, cleanup_calls, left_by>>
    /\ UNCHANGED <<detVars, genVars>>

\* while self.running
LoopTest ==
    /\ pc = "while"
    /\ IF running
       THEN /\ pc' = "generate"
            /\ UNCHANGED left_by
       ELSE /\ pc' = "finally"
            /\ left_by' = "signal"
    /\ UNCHANGED <<running, value, cleanup_calls>>
    /\ UNCHANGED <<detVars, genVars>>

\* value = self.simulator.get_next_value(); with a positive noise level the
\* normal draw makes any number a possible sample.
Generate ==
    /\ pc = "generate"
    /\ counter < MaxIterations
    /\ GetNextValue
    /\ IF gen_last' = "value"
       THEN /\ \E v \in Values : value' = v
            /\ pc' = "classify"
            /\ UNCHANGED left_by
       ELSE /\ pc' = "except"
            /\ left_by' = "exception"
            /\ UNCHANGED value
    /\ UNCHANGED <<gen_phase, seasonal_period, trend_factor, noise_level>>
    /\ UNCHANGED <<running, cleanup_calls>>
    /\ UNCHANGED detVars

\* is_anomaly = self.detector.is_anomaly(value)
Detect ==
    /\ pc = "classify"
    /\ IsAnomaly(value)
    /\ IF phase' = "crashed"
       THEN /\ pc' = "except"
            /\ left_by' = "exception"
       ELSE /\ pc' = "update"
            /\ UNCHANGED left_by
    /\ UNCHANGED <<running, value, cleanup_calls>>
    /\ UNCHANGED genVars

\* self.visualizer.update(...): True, False (the canvas could not be drawn),
\* or an exception from the plotting calls outside its try block.
VisUpdate(outcome) ==
    /\ pc = "update"
    /\ IF outcome = "True"
       THEN /\ pc' = "sleep"
            /\ UNCHANGED <<running, left_by>>
       ELSE IF outcome = "False"
       THEN /\ running' = FALSE
            /\ pc' = "finally"
            /\ left_by' = "sink"
       ELSE /\ pc' = "except"
            /\ left_by' = "exception"
            /\ UNCHANGED running
    /\ UNCHANGED <<value, cleanup_calls>>
    /\ UNCHANGED <<detVars, genVars>>

\* time.sleep(0.05)
Sleep ==
    /\ pc = "sleep"
    /\ pc' = "while"
    /\ UNCHANGED <<running, value, cleanup_calls, left_by>>
    /\ UNCHANGED <<detVars, genVars>>

\* A mutant: the exception handler without the finally clause.
HandlerExitNoFinally == "done"

\* Where control goes after the except block: the finally clause.
HandlerExit == "finally"

\* except Exception as e: print(...)
Except ==
    /\ pc = "except"
    /\ pc' = HandlerExit
    /\ UNCHANGED <<running, value, cleanup_calls, left_by>>
    /\ UNCHANGED <<detVars, genVars>>

\* finally: self.cleanup()
Cleanup ==
    /\ pc = "finally"
    /\ cleanup_calls' = cleanup_calls + 1
    /\ pc' = "done"
    /\ UNCHANGED <<running, value, left_by>>
    /\ UNCHANGED <<detVars, genVars>>

(***************************************************************************)
(* Specifications.                                                         *)
(***************************************************************************)
\* The detector, driven by any sequence of calls of its public methods.
Init == DetInit /\ GenInit /\ SysOff

Next ==
    \/ \E ws \in Capacities, th \in Thresholds :
          Construct(ws, th) /\ UNCHANGED <<genVars, sysVars>>
    \/ \E v \in Values : Classify(v) /\ UNCHANGED <<genVars, sysVars>>
    \/ UpdateStatistics /\ UNCHANGED <<genVars, sysVars>>

Spec == Init /\ [][Next]_vars

\* The generator, driven by any sequence of calls.
GenNext ==
    \/ \E sp \in Periods, tf \in TrendFactors, nl \in NoiseLevels :
          GenConstruct(sp, tf, nl) /\ UNCHANGED <<detVars, sysVars>>
    \/ NextValue /\ UNCHANGED <<detVars, sysVars>>

GenSpec == Init /\ [][GenNext]_vars

\* The driver: run()'s own steps, and the signal handler.
RunStep ==
    \/ LoopTest
    \/ Generate
    \/ Detect
    \/ \E outcome \in {"True", "False", "raise"} : VisUpdate(outcome)
    \/ Sleep
    \/ Except
    \/ Cleanup

SysNext == RunStep \/ SignalHandler

\* The interpreter keeps executing run() until it returns.
SysSpec == SysInit /\ [][SysNext]_vars /\ WF_vars(RunStep)

(***************************************************************************)
(* Properties.                                                             *)
(***************************************************************************)
Last(s) == s[Len(s)]

\* The last n elements of s, in order (all of s when it is shorter).
LastN(s, n) == SubSeq(s, IF Len(s) > n THEN Len(s) - n + 1 ELSE 1, Len(s))

AllEqual(s, v) == \A j \in 1 .. Len(s) : s[j] = v

RECURSIVE SumSq(_)
SumSq(s) == IF s = <<>> THEN Zero ELSE PAdd(PMul(Head(s), Head(s)), SumSq(Tail(s)))

\* The mean and the population variance E[x^2] - E[x]^2 of a window, the
\* latter as the radicand of the population standard deviation.
PopMean(w) ==
    IF Len(w) = 0 THEN NaN
    ELSE [kind |-> "num", num |-> SeqSum(w), den |-> Len(w)]

PopStd(w) ==
    IF Len(w) = 0 THEN NaN
    ELSE [kind |-> "num",
          num |-> PSub(PScale(Len(w), SumSq(w)), PMul(SeqSum(w), SeqSum(w))),
          den |-> Len(w) * Len(w)]

\* |w - v| > threshold * 1e-10, for threshold = thr[1]/thr[2].
BeyondEpsilon(w, v, thr) ==
    PSign(PSub(PScale(thr[2], PAbs(PSub(w, v))), PScale(thr[1], Epsilon))) > 0

Returned == phase = "ready" /\ Len(results) = Len(fed)

\* C1: each of the first floor(window_size/2) calls of is_anomaly returns
\* False whatever the values, and appends its value to the window.
WarmupGate ==
    phase \in {"ready", "crashed"} =>
        /\ \A i \in 1 .. Len(fed) :
              i <= window_size \div 2 => i <= Len(results) /\ results[i] = FALSE
        /\ Len(fed) <= window_size \div 2 => values = fed

WarmupGateWitness ==
    /\ phase = "ready"
    /\ window_size = 4
    /\ fed = <<Num(1, 0), Num(10, 0)>>
    /\ values = fed
    /\ results = <<FALSE, FALSE>>

\* C2: a call past the warm-up gate scores its value against the mean and
\* deviation of the window as it was before the insertion, the preceding
\* samples up to window_size, and returns what a detector recomputing them
\* from that window would return.
OneSampleLag ==
    /\ phase # "crashed"
    /\ (phase = "ready" /\ Len(fed) > 0 /\ ~used.gate) =>
          /\ before = LastN(SubSeq(fed, 1, Len(fed) - 1), window_size)
          /\ MeanEq(used.mean, NpMean(before))
          /\ StdEq(used.std, NpStd(before))
          /\ Len(results) = Len(fed)
          /\ Last(results) = ZScoreExceeds(Last(fed), NpMean(before), NpStd(before),
                                           threshold)

OneSampleLagWitness ==
    /\ phase = "ready"
    /\ ~used.gate
    /\ used.cached
    /\ Len(before) = 3
    /\ before[1] # before[2]
    /\ Last(fed) = Num(10, 0)
    /\ Last(results) = TRUE

\* C3: the window never holds more than window_size samples, holds the last
\* window_size samples fed in arrival order, and an insertion into a full
\* window evicts exactly the oldest sample.
WindowEviction ==
    phase = "ready" =>
        /\ Len(values) <= window_size
        /\ values = LastN(fed, window_size)
        /\ (Len(fed) > 0 /\ window_size > 0 /\ Len(before) = window_size) =>
              values = Append(Tail(before), Last(fed))

WindowEvictionWitness ==
    /\ phase = "ready"
    /\ window_size = 3
    /\ Len(fed) = 5
    /\ fed[1] # fed[3]
    /\ fed[2] # fed[4]
    /\ values = SubSeq(fed, 3, 5)

\* C4: past the warm-up gate, with every sample of the (non-empty) window
\* equal to v, is_anomaly(w) returns False for w = v and True for any w with
\* |w - v| > threshold * 1e-10.
ZeroVarianceWindow ==
    (Returned /\ Len(fed) > 0 /\ ~used.gate /\ before # <<>>
       /\ AllEqual(before, before[1])) =>
        /\ Last(fed) = before[1] => Last(results) = FALSE
        /\ BeyondEpsilon(Last(fed), before[1], threshold) => Last(results) = TRUE

\* The same for the detectors with a threshold >= 0.
ZeroVarianceWindowNonNegative ==
    threshold[1] >= 0 => ZeroVarianceWindow

\* The case of C5: call i finds the window full of the baseline v.
SpikeCase(i) ==
    /\ window_size >= 2
    /\ threshold[1] >= threshold[2]
    /\ i > window_size
    /\ i <= Len(results)
    /\ \A j \in (i - window_size) .. (i - 1) : fed[j] = fed[i - 1]

\* C5 as stated: after at least window_size samples equal to a baseline v
\* (window_size >= 2, threshold >= 1), is_anomaly(w) returns True for any
\* w # v and the following is_anomaly(v) returns False.
SpikeRecoveryAnySpike ==
    Returned =>
        \A i \in 1 .. Len(results) :
            (SpikeCase(i) /\ fed[i] # fed[i - 1]) =>
                /\ results[i] = TRUE
                /\ (i < Len(results) /\ fed[i + 1] = fed[i - 1]) => results[i + 1] = FALSE

\* C5, amended: the spike w is one with |w - v| > threshold * 1e-10; a
\* baseline sample following any w # v is not flagged.
SpikeRecovery ==
    Returned =>
        \A i \in 1 .. Len(results) :
            (SpikeCase(i) /\ fed[i] # fed[i - 1]) =>
                /\ BeyondEpsilon(fed[i], fed[i - 1], threshold) => results[i] = TRUE
                /\ (i < Len(results) /\ fed[i + 1] = fed[i - 1]) => results[i + 1] = FALSE

SpikeRecoveryWitness ==
    /\ phase = "ready"
    /\ window_size = 4
    /\ threshold = <<5, 2>>
    /\ fed = <<Num(1, 0), Num(1, 0), Num(1, 0), Num(1, 0), Num(10, 0), Num(1, 0)>>
    /\ results = <<FALSE, FALSE, FALSE, FALSE, TRUE, FALSE>>

\* C6: no detector exists with window_size <= 0 or threshold <= 0.
ConstructionValidated ==
    phase = "ready" => window_size > 0 /\ threshold[1] > 0

\* C7: no generator exists with seasonal_period <= 0, and get_next_value
\* never fails.
GeneratorValidated ==
    /\ gen_phase = "ready" => seasonal_period > 0
    /\ gen_last \in {"none", "value"}

\* C8 as stated: is_initialized is true whenever the window holds at least
\* floor(window_size/2) samples, and never reverts to false.  Stated for the
\* detectors with window_size >= 2 and threshold > 0, which have a warm-up.
WarmFlagWithWindow ==
    [][/\ (phase' = "ready" /\ window_size' >= 2 /\ threshold'[1] > 0
             /\ Len(values') >= window_size' \div 2) => is_initialized'
       /\ is_initialized => is_initialized']_vars

\* C8, amended: is_initialized is true after every call of is_anomaly that
\* began with at least floor(window_size/2) samples in the window, false
\* before the first such call, and never reverts to false.
WarmFlag ==
    [][/\ (phase = "ready" /\ fed' # fed /\ Len(values) >= window_size \div 2)
             => is_initialized'
       /\ (fed' # fed /\ Len(values) < window_size \div 2) => ~is_initialized'
       /\ is_initialized => is_initialized']_vars

WarmFlagWitness ==
    /\ phase = "ready"
    /\ window_size = 4
    /\ Len(fed) = 5
    /\ is_initialized

\* C9: after a call past the warm-up gate the cached mean and std are the
\* mean and the population standard deviation of the window with the value
\* just classified in it, and no z-score reads them before they are set.
CachedStatistics ==
    /\ phase # "crashed"
    /\ ~used.gate => used.mean.kind # "unset" /\ used.std.kind # "unset"
    /\ (phase = "ready" /\ is_initialized) =>
          /\ MeanEq(mean, PopMean(values))
          /\ StdEq(std, PopStd(values))

CachedStatisticsWitness ==
    /\ phase = "ready"
    /\ is_initialized
    /\ window_size = 3
    /\ Len(fed) = 5
    /\ values = <<Num(1, 0), Num(10, 0), Num(1, 2)>>
    /\ std.kind = "num"
    /\ std.num # Zero

\* C10: cleanup is called exactly once however the loop is left, and once
\* the loop has seen running = False no sample is generated or classified.
ShutdownCleanup ==
    /\ [](cleanup_calls <= 1)
    /\ [](pc = "done" => cleanup_calls = 1 /\ left_by # "none")
    /\ [](left_by # "none" => pc \in {"except", "finally", "done"})
    /\ [][left_by = "signal" => counter' = counter /\ fed' = fed]_vars
    /\ (left_by # "none") ~> (pc = "done" /\ cleanup_calls = 1)

ShutdownCleanupWitness ==
    /\ pc = "done"
    /\ cleanup_calls = 1
    /\ left_by = "signal"
    /\ counter = 2
    /\ Len(fed) = 2

====
